---- MODULE Spec2Model ----
(***************************************************************************)
(* Session lifecycle of ICPasswordAuth (src/lib/ic-password-auth.ts, the   *)
(* second, later definition of the class at lines 1208-1661).              *)
(*                                                                         *)
(* One page holds one ICPasswordAuth instance.  Every `await` of the code  *)
(* is a point where other callbacks of the page may run, so every          *)
(* asynchronous method is cut into one action per awaited segment.  A      *)
(* storage operation takes effect when it is called; its completion is     *)
(* observed at the following segment.  Timers fire exactly when due (a     *)
(* simulated clock): time does not pass a pending timer's due time.        *)
(***************************************************************************)
EXTENDS Integers, Sequences, FiniteSets, TLC

(* ------------------------------ bounds --------------------------------- *)
\* signUp/signIn calls of an application that awaits each before the next
MaxCalls == 1
\* signUp/signIn calls of an application that does not await them
MaxOverlap == 2
\* application calls of signOut()
MaxSignOuts == 2
\* advances of the clock
MaxTicks == 1
\* page loads (constructions of the instance over the same storage)
MaxLoads == 2

(* ------------------------- program constants --------------------------- *)
\* const MIN_TIMEOUT = 5 * 1000
MIN_TIMEOUT == 5000
\* const MAX_TIMEOUT = 12 * 60 * 60 * 1000
MAX_TIMEOUT == 43200000
\* config.idleTimeout || 10 * 60 * 1000
IdleTimeoutMs == 600000
\* expireInNanoseconds = 30 * 60 * 10^9, in milliseconds
SessionTtlMs == 1800000
\* expireAt / BigInt(1_000_000): nanoseconds per millisecond
NsPerMs == 1000000

(* ------------------------- the modelled world -------------------------- *)
\* clock (Date.now(), ms) at the first page load
T0 == 100000
\* smallest advance of the simulated clock, ms
TickStep == 1000
Usernames == {"alice", "bob"}
Passwords == {"secret123"}

\* null / a present value
Null == <<>>
Some(x) == <<x>>

(* ----------------------------- JS numbers ------------------------------ *)
\* A JS number is an integer or NaN; every comparison with NaN is false.
NaN == [nan |-> TRUE, v |-> 0]
Num(n) == [nan |-> FALSE, v |-> n]
JsSub(a, b) == IF a.nan \/ b.nan THEN NaN ELSE Num(a.v - b.v)
JsLe(a, b) == ~a.nan /\ ~b.nan /\ a.v <= b.v
JsGe(a, b) == ~a.nan /\ ~b.nan /\ a.v >= b.v
MathMin(a, b) == IF a.nan \/ b.nan THEN NaN ELSE IF a.v <= b.v THEN a ELSE b
MathMax(a, b) == IF a.nan \/ b.nan THEN NaN ELSE IF a.v >= b.v THEN a ELSE b

\* A JSON value of the stored record's expiresAt field, and JS's ToNumber of it
\* (it is what `Date.now() >= session.expiresAt` and `new Date(x)` convert with;
\* a non-numeric string gives NaN in both).
JNum(n) == [t |-> "number", v |-> n]
JNull == [t |-> "null"]
JUndefined == [t |-> "undefined"]
JString == [t |-> "string"]
ToNumber(j) ==
    CASE j.t = "number" -> Num(j.v)
      [] j.t = "null" -> Num(0)
      [] OTHER -> NaN

\* new Date(value): the Date's time value
NewDate(j) == ToNumber(j)
\* JSON.stringify of a number: NaN is written as null
StringifyNumber(n) == IF n.nan THEN JNull ELSE JNum(n.v)

(* ------------------------- keys and principals ------------------------- *)
\* crypto.subtle.digest('SHA-256', username) as lowercase hex
UsernameHash(u) == [sha256hex |-> u]
\* nacl.sign.keyPair(): a fresh random key; `load` and `slot` name the draw
RandomKey(load, slot) == [random |-> <<load, slot>>]
\* derEncodePublicKey: 12-byte prefix || key
derEncodePublicKey(k) == [der |-> "302a300506032b6570032100", key |-> k]
\* the secret half of the key pair whose public key is k
SecretKey(k) == [secretKeyOf |-> k]
\* The authority's key for an account: userPublicKey of its AuthResponse
UserPublicKey(userId) == [canisterSig |-> userId]
\* Principal.selfAuthenticating(publicKey).toString()
PrincipalText(pk) == [principal |-> pk]

(* --------------------------- delegation chain -------------------------- *)
Delegation(pubkey, expiration) == [pubkey |-> pubkey, expiration |-> expiration]
\* DelegationChain.fromDelegations(delegations, userPublicKey)
ChainFromDelegations(ds, pk) == [delegations |-> ds, publicKey |-> pk]
Hex(x) == [hex |-> x]
UnHex(h) == h.hex
\* DelegationChain.toJSON(): every byte string as hex text
ChainToJSON(c) ==
    [delegations |-> [i \in 1..Len(c.delegations) |->
                        [delegation |-> [pubkey |-> Hex(c.delegations[i].delegation.pubkey),
                                         expiration |-> Hex(c.delegations[i].delegation.expiration)],
                         signature |-> Hex(c.delegations[i].signature)]],
     publicKey |-> Hex(c.publicKey)]
\* DelegationChain.fromJSON()
ChainFromJSON(j) ==
    [delegations |-> [i \in 1..Len(j.delegations) |->
                        [delegation |-> Delegation(UnHex(j.delegations[i].delegation.pubkey),
                                                   UnHex(j.delegations[i].delegation.expiration)),
                         signature |-> UnHex(j.delegations[i].signature)]],
     publicKey |-> UnHex(j.publicKey)]
\* DelegationIdentity.fromDelegation(key, chain)
DelegationIdentity(key, chain) == [inner |-> key, delegation |-> chain]
\* DelegationIdentity.getPrincipal(): derived from the chain's root key
IdentityPrincipal(id) == PrincipalText(id.delegation.publicKey)

(* ------------------------------- storage ------------------------------- *)
\* JSON.stringify(v) / JSON.parse(text); text that is not JSON does not parse
JSONStringify(v) == [json |-> v]
NotJSON == [garbage |-> "not json"]
IsJSON(s) == "json" \in DOMAIN s
JSONParse(s) == s.json
\* The delegationChain field of a stored record: a string holding JSON, a
\* string that is not JSON, or no field at all.
ChainField(c) == [t |-> "string", text |-> JSONStringify(ChainToJSON(c))]
BadChainField == [t |-> "string", text |-> NotJSON]
NoChainField == [t |-> "undefined"]
\* JSON.parse(session.delegationChain) followed by DelegationChain.fromJSON
\* succeeds only on a string that holds a serialised chain.
ChainFieldParses(f) == f.t = "string" /\ IsJSON(f.text)

VARIABLES
    clock,             \* Date.now()
    ticks,             \* advances of the clock so far
    loads,             \* page loads so far
    idleConfigured,    \* config.idleManager given: this.idleManager !== null
    storage,           \* value under sessionKey in the storage backend, or Null
    currentIdentity,   \* this.currentIdentity
    currentExpiresAt,  \* this.currentExpiresAt (a Date's time value)
    expirationTimer,   \* this.expirationTimer (a timer handle)
    idleTimer,         \* idleManager.idleTimer (a timer handle)
    listeners,         \* listener sets attached to window by IdleManager.start
    timers,            \* pending platform timeouts: [id, kind, due]
    restore,           \* the constructor's restoreSession() call
    att,               \* the signUp/signIn calls in flight on this page
    worker,            \* the page's Argon2Worker (argon2Worker.worker)
    calls,             \* number of signUp/signIn calls so far
    signOuts,          \* number of application signOut() calls so far
    touched,           \* the application has called signUp, signIn or signOut here
    emitted,           \* onAuth events emitted by the last step, in order
    reported,          \* errors passed to onError by the last step
    signedOut,         \* what signOut left behind, when the last step ran it
    settled,           \* the signUp/signIn promise the last step settled
    created,           \* what createAgent() gave, when the last step called it
    backend,           \* what the storage backend's get and remove do on this page
    argon2,            \* the Argon2Worker object: its fields, messages and promises
    escaped            \* what the last step let escape: exceptions, rejections

vars == <<clock, ticks, loads, idleConfigured, storage, currentIdentity,
          currentExpiresAt, expirationTimer, idleTimer, listeners, timers,
          restore, att, worker, calls, signOuts, touched, emitted, reported, signedOut,
          settled, created, backend, argon2, escaped>>

\* The fields the instance's methods read and write, as one record; events
\* collects what a step emits and lastSignOut what its signOut call left.
Cur ==
    [currentIdentity |-> currentIdentity, currentExpiresAt |-> currentExpiresAt,
     storage |-> storage, expirationTimer |-> expirationTimer,
     idleTimer |-> idleTimer, listeners |-> listeners, timers |-> timers,
     events |-> <<>>, lastSignOut |-> Null, escaped |-> <<>>]

Commit(m) ==
    /\ currentIdentity' = m.currentIdentity
    /\ currentExpiresAt' = m.currentExpiresAt
    /\ storage' = m.storage
    /\ expirationTimer' = m.expirationTimer
    /\ idleTimer' = m.idleTimer
    /\ listeners' = m.listeners
    /\ timers' = m.timers
    /\ emitted' = m.events
    /\ signedOut' = m.lastSignOut
    /\ created' = Null
    /\ escaped' = m.escaped

\* AuthStorage.get answers or fails; AuthStorage.remove, which may be
\* synchronous or return a promise, removes, throws or rejects
SoundBackend == [get |-> "ok", remove |-> "ok"]
Backends == [get : {"ok", "fails"}, remove : {"ok", "throws", "rejects"}]
\* an exception is on its way up the call stack
Thrown(m) == m.escaped # <<>> /\ m.escaped[Len(m.escaped)] = "exception"
\* a catch block has taken the exception
Caught(m) == [m EXCEPT !.escaped = SubSeq(@, 1, Len(@) - 1)]

\* a step that settles no promise and reports no error
Quiet == settled' = Null /\ reported' = <<>>

(* ------------------------------- timers -------------------------------- *)
Min(S) == CHOOSE x \in S : \A y \in S : x <= y
\* window.setTimeout returns a handle that no pending timer has.  A handle
\* is the timer's kind and a number; the one field that holds handles of
\* that kind is overwritten with the new handle by both callers, so an
\* old handle left in it needs no number of its own.
FreshTimerId(m, kind) ==
    <<kind, Min({i \in 1..(Cardinality(m.timers) + 1) :
                   \A t \in m.timers : t.id # <<kind, i>>})>>
\* a delay that is NaN or negative is treated as 0
TimerDelay(n) == IF n.nan \/ n.v < 0 THEN 0 ELSE n.v
\* clearTimeout(handle): no effect when the timer already fired
ClearTimeout(m, h) ==
    [m EXCEPT !.timers = {t \in m.timers : Some(t.id) # h}]
IdlePending(m) == \E t \in m.timers : t.kind = "idle"
ExpirationPending(m) == \E t \in m.timers : t.kind = "expiration"

(* ----------------------------- IdleManager ----------------------------- *)
\* A resetTimer that arms a timer without cancelling the pending one
resetTimerKeepsPending(m) ==
    LET id == FreshTimerId(m, "idle")
    IN [m EXCEPT !.idleTimer = Some(id),
                 !.timers = @ \cup {[id |-> id, kind |-> "idle",
                                     due |-> clock + IdleTimeoutMs]}]
\* IdleManager.resetTimer
resetTimer(m) ==
    LET c == IF m.idleTimer # Null THEN ClearTimeout(m, m.idleTimer) ELSE m
        id == FreshTimerId(c, "idle")
    IN [c EXCEPT !.idleTimer = Some(id),
                 !.timers = @ \cup {[id |-> id, kind |-> "idle",
                                     due |-> clock + IdleTimeoutMs]}]
\* IdleManager.start: one more set of listeners is attached on every call
IdleStart(m) == [resetTimer(m) EXCEPT !.listeners = @ + 1]
\* IdleManager.stop: removeEventListener is given a new bound function, which
\* matches none of the attached ones, so no listener is removed.
IdleStop(m) ==
    IF m.idleTimer # Null
    THEN [ClearTimeout(m, m.idleTimer) EXCEPT !.idleTimer = Null]
    ELSE m

(* ------------------------------- signOut ------------------------------- *)
SignOutEvent(reason) == [authenticated |-> FALSE, event |-> "signOut", reason |-> reason]
Emit(m, e) == [m EXCEPT !.events = Append(@, e)]
\* What an observer finds when signOut(reason) returns.
Snapshot(before, after, reason) ==
    [reason |-> reason,
     isAuthenticated |-> after.currentIdentity # Null,
     principal |-> IF after.currentIdentity = Null THEN Null
                   ELSE Some(IdentityPrincipal(after.currentIdentity[1])),
     expiresAt |-> after.currentExpiresAt,
     stored |-> after.storage # Null,
     expirationPending |-> ExpirationPending(after),
     idlePending |-> IdlePending(after),
     emitted |-> SubSeq(after.events, Len(before.events) + 1, Len(after.events)),
     returned |-> TRUE,
     wasAuthenticated |-> before.currentIdentity # Null,
     wasStored |-> before.storage # Null,
     wasArmed |-> ExpirationPending(before) \/ IdlePending(before)]
\* A signOut that forgets the expiration timer
signOutKeepsExpirationTimer(m, reason) ==
    LET a == [m EXCEPT !.currentIdentity = Null,
                       !.currentExpiresAt = Null,
                       !.storage = Null]
        b == IF idleConfigured THEN IdleStop(a) ELSE a
        d == Emit(b, SignOutEvent(reason))
    IN [d EXCEPT !.lastSignOut = Some(Snapshot(m, d, reason))]
\* A signOut that returns at once, silently, when no identity is held
signOutOnlyWhenSignedIn(m, reason) ==
    IF m.currentIdentity = Null
    THEN [m EXCEPT !.lastSignOut = Some(Snapshot(m, m, reason))]
    ELSE LET a == [m EXCEPT !.currentIdentity = Null,
                            !.currentExpiresAt = Null,
                            !.storage = Null]
             b == IF idleConfigured THEN IdleStop(a) ELSE a
             c == IF b.expirationTimer # Null
                  THEN [ClearTimeout(b, b.expirationTimer) EXCEPT !.expirationTimer = Null]
                  ELSE b
             d == Emit(c, SignOutEvent(reason))
         IN [d EXCEPT !.lastSignOut = Some(Snapshot(m, d, reason))]
\* A signOut that clears the identity and leaves currentExpiresAt
signOutKeepsExpiresAt(m, reason) ==
    LET a == [m EXCEPT !.currentIdentity = Null,
                       !.storage = Null]
        b == IF idleConfigured THEN IdleStop(a) ELSE a
        c == IF b.expirationTimer # Null
             THEN [ClearTimeout(b, b.expirationTimer) EXCEPT !.expirationTimer = Null]
             ELSE b
        d == Emit(c, SignOutEvent(reason))
    IN [d EXCEPT !.lastSignOut = Some(Snapshot(m, d, reason))]
\* storage.remove is called without await and outside any try: when it
\* throws, signOut ends there; when its promise rejects, nothing handles it
signOut(m, reason) ==
    LET f == [m EXCEPT !.currentIdentity = Null,
                       !.currentExpiresAt = Null]
        a == CASE backend.remove = "ok" -> [f EXCEPT !.storage = Null]
               [] backend.remove = "rejects" -> [f EXCEPT !.escaped = Append(@, "rejection")]
               [] backend.remove = "throws" -> [f EXCEPT !.escaped = Append(@, "exception")]
        b == IF idleConfigured THEN IdleStop(a) ELSE a
        c == IF b.expirationTimer # Null
             THEN [ClearTimeout(b, b.expirationTimer) EXCEPT !.expirationTimer = Null]
             ELSE b
        d == Emit(c, SignOutEvent(reason))
    IN IF backend.remove = "throws"
       THEN [a EXCEPT !.lastSignOut =
                         Some([Snapshot(m, a, reason) EXCEPT !.returned = FALSE])]
       ELSE [d EXCEPT !.lastSignOut = Some(Snapshot(m, d, reason))]

(* -------------------------- setExpirationTimer ------------------------- *)
\* A setExpirationTimer that schedules the check at the expiry itself
setExpirationTimerUnclamped(m, expiresAt) ==
    LET a == IF m.expirationTimer # Null
             THEN [ClearTimeout(m, m.expirationTimer) EXCEPT !.expirationTimer = Null]
             ELSE m
        msUntilExpiration == JsSub(expiresAt, Num(clock))
        id == FreshTimerId(a, "expiration")
    IN IF JsLe(msUntilExpiration, Num(0))
       THEN signOut(a, "expired")
       ELSE [a EXCEPT !.expirationTimer = Some(id),
                      !.timers = @ \cup {[id |-> id, kind |-> "expiration",
                                          due |-> clock + TimerDelay(msUntilExpiration)]}]
\* expiresAt is a Date's time value
setExpirationTimer(m, expiresAt) ==
    LET a == IF m.expirationTimer # Null
             THEN [ClearTimeout(m, m.expirationTimer) EXCEPT !.expirationTimer = Null]
             ELSE m
        msUntilExpiration == JsSub(expiresAt, Num(clock))
        timeout == MathMax(Num(MIN_TIMEOUT), MathMin(msUntilExpiration, Num(MAX_TIMEOUT)))
        id == FreshTimerId(a, "expiration")
    IN IF JsLe(msUntilExpiration, Num(0))
       THEN signOut(a, "expired")
       ELSE [a EXCEPT !.expirationTimer = Some(id),
                      !.timers = @ \cup {[id |-> id, kind |-> "expiration",
                                          due |-> clock + TimerDelay(timeout)]}]

(* ------------------------- the stored session -------------------------- *)
StoredSession(chainField, expiresAtField, principal) ==
    [delegationChain |-> chainField, expiresAt |-> expiresAtField, principal |-> principal]
\* saveSession's argument to storage.set: expiresAt.getTime() goes through
\* JSON.stringify, the chain through toJSON and JSON.stringify twice.
SerializeSession(chain, principal, expiresAt) ==
    JSONStringify(StoredSession(ChainField(chain), StringifyNumber(expiresAt), principal))
\* saveSession: storage.set either writes the record or throws (quota)
saveSession(m, chain, principal, expiresAt, setOk) ==
    IF setOk
    THEN [m EXCEPT !.storage = Some(SerializeSession(chain, principal, expiresAt))]
    ELSE m

(* ----------------------- the delegation authority ---------------------- *)
\* expireAt is a nanosecond timestamp q * 10^6 + r, kept as quotient and
\* remainder; expireAt / BigInt(1_000_000) is the quotient.
ExpireAtNs(q, r) == [q |-> q, r |-> r]
BigIntDivMillion(e) == e.q
\* new Date(Number(expireAt / BigInt(1_000_000))): the Date's time value
ExpiresAtOf(e) == Num(BigIntDivMillion(e))
\* The expireAt values prepareDelegationPassword may answer with: a past
\* instant, one nearer than MIN_TIMEOUT to the first page load, and the
\* requested 30 minutes after it.
ExpireAtChoices ==
    { ExpireAtNs(T0 - TickStep, NsPerMs - 1),
      ExpireAtNs(T0 + TickStep, 0),
      ExpireAtNs(T0 + SessionTtlMs, 1) }
PrepResponses(register) ==
    { [t |-> "ok", expireAt |-> e, isNew |-> n] :
          e \in ExpireAtChoices, n \in (IF register THEN BOOLEAN ELSE {FALSE}) }
    \cup { [t |-> "err", err |-> "prepare refused"] }
\* The signed delegations getDelegation answers with for a session key
SignedDelegation(sessionKey, expireAt) ==
    [delegation |-> Delegation(sessionKey, expireAt),
     signature |-> [signedBy |-> "authority"]]
DelegationResponses(userId, sessionKey, expireAt) ==
    { [t |-> "ok", delegations |-> ds, userPublicKey |-> UserPublicKey(userId)] :
          ds \in { <<>>, <<SignedDelegation(sessionKey, expireAt)>> } }
    \cup { [t |-> "err", err |-> "delegation refused"] }

(* ------------------------------- Init ---------------------------------- *)
\* The chain authenticate builds for user u from a one-delegation answer to
\* the session key drawn as (load, slot), and the record saveSession writes
\* for it
ChainOf(u, load, slot, expireAt) ==
    ChainFromDelegations(
        <<SignedDelegation(derEncodePublicKey(RandomKey(load, slot)), expireAt)>>,
        UserPublicKey(UsernameHash(u)))
RecordOf(u, load, slot, expireAt) ==
    SerializeSession(ChainOf(u, load, slot, expireAt),
                     PrincipalText(UserPublicKey(UsernameHash(u))),
                     ExpiresAtOf(expireAt))
\* A record as an earlier page of this origin (load 0) saved it
StoredChain(u) == ChainOf(u, 0, 1, ExpireAtNs(T0 + SessionTtlMs, 0))
GoodRecord(u, expiresAt) == RecordOf(u, 0, 1, ExpireAtNs(expiresAt, 0))
\* What the storage key can hold when a page loads: nothing, a record an
\* earlier page saved (expired, expiring now, still valid), or damaged data.
InitialStorage ==
    { Null,
      Some(GoodRecord("alice", T0 - TickStep)),
      Some(GoodRecord("alice", T0)),
      Some(GoodRecord("alice", T0 + SessionTtlMs)),
      Some(NotJSON),
      Some(JSONStringify(StoredSession(NoChainField, JNum(T0 + SessionTtlMs), JString))),
      Some(JSONStringify(StoredSession(BadChainField, JNum(T0 + SessionTtlMs), JString))),
      Some(JSONStringify(StoredSession(ChainField(StoredChain("alice")), JUndefined,
                                       PrincipalText(UserPublicKey(UsernameHash("alice")))))) }

\* config.onProgress is called with a message, the step and the total
ProgressEventOwnTotal(step) ==
    [message |-> CASE step = 1 -> "Hashing password..."
                   [] step = 2 -> "Preparing login session..."
                   [] step = 3 -> "Requesting delegation...",
     step |-> step, total |-> step]
ProgressEvent(step) ==
    [message |-> CASE step = 1 -> "Hashing password..."
                   [] step = 2 -> "Preparing login session..."
                   [] step = 3 -> "Requesting delegation...",
     step |-> step, total |-> 3]
\* one more call of onProgress, after those the attempt has made
onProgress(called, step) == Append(called, ProgressEvent(step))

\* progress is what the attempt has passed to onProgress so far, in order
NoAttempt ==
    [pc |-> "none", username |-> "", password |-> "", register |-> FALSE,
     authAtCall |-> FALSE, hashParams |-> Null, seed |-> Null, identity |-> Null,
     request |-> Null, progress |-> <<>>,
     expireAt |-> Null, isNew |-> FALSE, setOk |-> TRUE, result |-> Null]
Attempts == 1..(IF MaxCalls > MaxOverlap THEN MaxCalls ELSE MaxOverlap)

(* ----------------------------- Argon2Worker ---------------------------- *)
\* new Argon2Worker(): no Worker yet, messageId 0, no pending message.
\* posted are the messages on their way to the Worker, answers those on
\* their way back; promises are the promises hash() has returned, each with
\* the id its request was given and the times it was settled.
NewArgon2Worker ==
    [worker |-> FALSE, messageId |-> 0, pendingMessages |-> <<>>,
     posted |-> {}, answers |-> {}, promises |-> <<>>]
\* Map.set and Map.delete
MapSet(f, k, v) == [x \in DOMAIN f \cup {k} |-> IF x = k THEN v ELSE f[x]]
MapDelete(f, k) == [x \in DOMAIN f \ {k} |-> f[x]]
\* An id taken without advancing the counter
TakeIdNoIncrement(w) == [id |-> w.messageId, next |-> w.messageId]
\* `const id = this.messageId++`
TakeId(w) == [id |-> w.messageId, next |-> w.messageId + 1]
Undefined == [t |-> "undefined"]
\* resolve(value) / reject(error) of a promise: only the first call settles
Settle(promise, state, value) ==
    [promise EXCEPT !.settles = @ + 1,
                    !.state = IF promise.state = "pending" THEN state ELSE @,
                    !.value = IF promise.state = "pending" THEN Some(value) ELSE @]
\* Argon2Worker.hash(params)
hash(w, params) ==
    LET c == IF ~w.worker THEN [w EXCEPT !.worker = TRUE] ELSE w
        t == TakeId(c)
        p == Len(c.promises) + 1
    IN [c EXCEPT !.messageId = t.next,
                 !.pendingMessages = MapSet(@, t.id, p),
                 !.posted = @ \cup {[id |-> t.id, params |-> params]},
                 !.promises = Append(@, [id |-> t.id, params |-> params,
                                         state |-> "pending", value |-> Null,
                                         settles |-> 0])]
\* worker.onmessage: the pending entry of the message's id, if there is one,
\* is deleted and settled; an error that is an empty string counts as none
onmessage(w, data) ==
    IF data.id \in DOMAIN w.pendingMessages
    THEN LET p == w.pendingMessages[data.id] IN
         [w EXCEPT !.pendingMessages = MapDelete(@, data.id),
                   !.promises[p] =
                       IF data.error # Null /\ data.error[1] # ""
                       THEN Settle(@, "rejected", [error |-> data.error[1]])
                       ELSE Settle(@, "resolved",
                                   IF data.result = Null THEN Undefined
                                   ELSE data.result[1])]
    ELSE w
\* worker.onerror: every pending entry is rejected and deleted
onerror(w, message) ==
    [w EXCEPT !.pendingMessages = <<>>,
              !.promises = [p \in DOMAIN w.promises |->
                              IF \E id \in DOMAIN w.pendingMessages :
                                    w.pendingMessages[id] = p
                              THEN Settle(w.promises[p], "rejected",
                                          [error |-> "Worker error: " \o message])
                              ELSE w.promises[p]]]
\* Argon2Worker.terminate(): the Worker is ended with what it had not yet
\* read; what it had already sent may still arrive
terminate(w) ==
    [w EXCEPT !.worker = FALSE, !.pendingMessages = <<>>, !.posted = {}]

\* constructor: the fields' initial values; restoreSession() runs up to its
\* `await this.storage.get(...)`
Constructed ==
    /\ currentIdentity = Null
    /\ currentExpiresAt = Null
    /\ expirationTimer = Null
    /\ idleTimer = Null
    /\ listeners = 0
    /\ timers = {}
    /\ att = [a \in Attempts |-> NoAttempt]
    /\ touched = FALSE
    /\ emitted = <<>>
    /\ reported = <<>>
    /\ signedOut = Null
    /\ settled = Null
    /\ created = Null
    /\ escaped = <<>>
    /\ argon2 = NewArgon2Worker

\* restoreSession up to `await this.storage.get(...)`, which has read data
StartRestore(data) == [pc |-> "get", data |-> data]
RestoreDone == [pc |-> "done", data |-> Null]

Init ==
    /\ clock = T0
    /\ ticks = 0
    /\ loads = 1
    /\ calls = 0
    /\ signOuts = 0
    /\ idleConfigured \in BOOLEAN
    /\ storage \in InitialStorage
    /\ restore = StartRestore(storage)
    /\ worker = "none"
    /\ backend = SoundBackend
    /\ Constructed

env == <<clock, ticks, loads, idleConfigured, backend, argon2>>
\* the page outside the instance's fields and calls
page == <<env, worker>>

(* ---------------------------- restoreSession --------------------------- *)
RestoreEvent(principal, expiresAt) ==
    [authenticated |-> TRUE, event |-> "signIn", reason |-> "restore",
     principal |-> principal, expiresAt |-> expiresAt]
\* Date.now() > session.expiresAt: a record is kept at its expiry instant
StoredExpiredAfter(session) ==
    LET e == ToNumber(session.expiresAt) IN ~e.nan /\ clock > e.v
\* Date.now() >= session.expiresAt
StoredExpired(session) == JsGe(Num(clock), ToNumber(session.expiresAt))
\* A restore that sets the identity and never schedules the expiry check
restoreIdentityUnscheduled(m, session) ==
    LET delegationChain == ChainFromJSON(JSONParse(session.delegationChain.text))
        tempIdentity == RandomKey(loads, 0)
        a == [m EXCEPT !.currentIdentity = Some(DelegationIdentity(tempIdentity, delegationChain)),
                       !.currentExpiresAt = Some(NewDate(session.expiresAt))]
        b == IF idleConfigured THEN IdleStart(a) ELSE a
    IN Emit(b, RestoreEvent(session.principal, b.currentExpiresAt))
\* the try block after the expiry check has passed
restoreIdentity(m, session) ==
    LET delegationChain == ChainFromJSON(JSONParse(session.delegationChain.text))
        tempIdentity == RandomKey(loads, 0)
        a == [m EXCEPT !.currentIdentity = Some(DelegationIdentity(tempIdentity, delegationChain)),
                       !.currentExpiresAt = Some(NewDate(session.expiresAt))]
        b == IF idleConfigured THEN IdleStart(a) ELSE a
        c == setExpirationTimer(b, a.currentExpiresAt[1])
    IN IF Thrown(c) THEN c
       ELSE Emit(c, RestoreEvent(session.principal, c.currentExpiresAt))

\* the catch block up to its `await this.storage.remove(...)`: a remove
\* that throws there rejects restoreSession's promise, which nothing handles
catchRemove(m) ==
    CASE backend.remove = "ok" -> [m |-> [m EXCEPT !.storage = Null], pc |-> "catchRemove"]
      [] backend.remove = "rejects" -> [m |-> m, pc |-> "catchRemove"]
      [] backend.remove = "throws" ->
            [m |-> [m EXCEPT !.escaped = Append(@, "rejection")], pc |-> "done"]
\* restoreSession from the answer of storage.get, up to its next await or end:
\* the record of the instance and the place the call is left at
restoreSession(m, sessionData) ==
    IF backend.get = "fails"
    THEN catchRemove(m)
    ELSE IF sessionData = Null
    THEN [m |-> m, pc |-> "done"]
    ELSE IF ~IsJSON(sessionData[1])
    THEN catchRemove(m)
    ELSE LET session == JSONParse(sessionData[1]) IN
         IF StoredExpired(session)
         THEN CASE backend.remove = "ok" ->
                      [m |-> [m EXCEPT !.storage = Null], pc |-> "expiredRemove"]
                [] backend.remove = "rejects" -> [m |-> m, pc |-> "expiredRemove"]
                [] backend.remove = "throws" -> catchRemove(m)
         ELSE IF ~ChainFieldParses(session.delegationChain)
         THEN catchRemove(m)
         ELSE LET r == restoreIdentity(m, session) IN
              IF Thrown(r) THEN catchRemove(Caught(r)) ELSE [m |-> r, pc |-> "done"]

RestoreResume ==
    /\ restore.pc = "get"
    /\ LET r == restoreSession(Cur, restore.data) IN
          /\ restore' = IF r.pc = "done" THEN RestoreDone
                         ELSE [restore EXCEPT !.pc = r.pc, !.data = Null]
          /\ Commit(r.m)
    /\ Quiet
    /\ UNCHANGED <<page, att, calls, signOuts, touched>>

\* after `await this.storage.remove` of the expired branch: the signOut event
RestoreExpiredNotify ==
    /\ restore.pc = "expiredRemove"
    /\ IF backend.remove = "rejects"
       THEN LET r == catchRemove(Cur) IN
               /\ restore' = IF r.pc = "done" THEN RestoreDone
                              ELSE [restore EXCEPT !.pc = r.pc]
               /\ Commit(r.m)
       ELSE /\ restore' = RestoreDone
            /\ Commit(Emit(Cur, SignOutEvent("expired")))
    /\ Quiet
    /\ UNCHANGED <<page, att, calls, signOuts, touched>>

\* after `await this.storage.remove` of the catch block
RestoreCatchDone ==
    /\ restore.pc = "catchRemove"
    /\ restore' = RestoreDone
    /\ Commit(IF backend.remove = "rejects"
              THEN [Cur EXCEPT !.escaped = Append(@, "rejection")]
              ELSE Cur)
    /\ Quiet
    /\ UNCHANGED <<page, att, calls, signOuts, touched>>

(* ------------------------- signUp / signIn ----------------------------- *)
\* TextEncoder.encode: the UTF-8 bytes of a string
TextEncode(str) == [utf8 |-> str]
\* A hash whose salt names the page that computes it
HashParamsPerPage(username, password) ==
    [pass |-> TextEncode(password),
     salt |-> TextEncode("icpasswordlogin" \o username \o ToString(loads)),
     time |-> 3, mem |-> 65536, hashLen |-> 32, parallelism |-> 1, type |-> 2]
\* the argument of worker.hash
HashParams(username, password) ==
    [pass |-> TextEncode(password),
     salt |-> TextEncode("icpasswordlogin" \o username),
     time |-> 3, mem |-> 65536, hashLen |-> 32, parallelism |-> 1, type |-> 2]
\* argon2.hash(params).hash: a function of its parameters
Argon2id(params) == [argon2id |-> params]
\* nacl.sign.keyPair.fromSeed(seed), named by its public key
KeyFromSeed(seed) == [ed25519FromSeed |-> seed]
\* window.location.origin
Origin == "https://app.example"
\* BigInt(30 * 60) * BigInt(1_000_000_000) nanoseconds
ExpireInNanoseconds == ExpireAtNs(SessionTtlMs, 0)
\* A text argument carrying a string as it is
RawText(str) == [text |-> str]
\* A call of the authority: the remote method and its arguments
Request(method, args) == [method |-> method, args |-> args]
\* A prepare call that names the user by the raw username
PrepareArgsRawUsername(username, register, sessionKey) ==
    [userId |-> RawText(username), register |-> register, origin |-> Origin,
     sessionKey |-> sessionKey, expireIn |-> ExpireInNanoseconds, targets |-> <<>>]
\* the arguments of prepareDelegationPassword
PrepareArgs(username, register, sessionKey) ==
    [userId |-> UsernameHash(username), register |-> register, origin |-> Origin,
     sessionKey |-> sessionKey, expireIn |-> ExpireInNanoseconds, targets |-> <<>>]
\* A getDelegation that asks for the expiry the client computes itself
GetDelegationArgsOwnExpiry(sessionKey, expireAt) ==
    [provider |-> "password", origin |-> Origin, sessionKey |-> sessionKey,
     expireAt |-> ExpireAtNs(clock + SessionTtlMs, 0), targets |-> <<>>]
\* the arguments of getDelegation
GetDelegationArgs(sessionKey, expireAt) ==
    [provider |-> "password", origin |-> Origin, sessionKey |-> sessionKey,
     expireAt |-> expireAt, targets |-> <<>>]
\* Argon2Worker.createWorker: the worker whose script loads and installs its
\* message handler, or the one whose script throws while loading (its error
\* event is still to be delivered)
createWorker == {"ready", "failing"}
\* the call itself: authenticate runs up to `await worker.hash(...)`, which
\* creates the page's worker when there is none and posts the job to it
Call(u, p, register) ==
    /\ calls' = calls + 1
    /\ touched' = TRUE
    /\ att' = [att EXCEPT ![calls + 1] =
                 [NoAttempt EXCEPT !.pc = "hash", !.username = u, !.password = p,
                                   !.register = register,
                                   !.progress = onProgress(<<>>, 1),
                                   !.hashParams = Some(HashParams(u, p)),
                                   !.authAtCall = (currentIdentity # Null)]]
    /\ worker' \in (IF worker = "none" THEN createWorker ELSE {worker})
    /\ Commit(Cur)
    /\ Quiet
    /\ UNCHANGED <<env, restore, signOuts>>
SignUp == \E u \in Usernames, p \in Passwords : Call(u, p, TRUE)
SignIn == \E u \in Usernames, p \in Passwords : Call(u, p, FALSE)

Finished == [NoAttempt EXCEPT !.pc = "done"]
\* A catch that rewords the error before it reports and rethrows it
RejectReworded(a, stage, error) ==
    /\ att' = [att EXCEPT ![a] = Finished]
    /\ reported' = <<"Authentication failed: " \o error>>
    /\ settled' = Some([attempt |-> a, outcome |-> "rejected", stage |-> stage,
                        error |-> "Authentication failed: " \o error,
                        authAtCall |-> att[a].authAtCall,
                        progress |-> IF stage = "agent"
                                     THEN onProgress(att[a].progress, 2)
                                     ELSE att[a].progress])
\* catch of signUp/signIn: onError(error), then the promise rejects; the
\* making of the key pair and the agent fails after the step 2 call
Reject(a, stage, error) ==
    /\ att' = [att EXCEPT ![a] = Finished]
    /\ reported' = <<error>>
    /\ settled' = Some([attempt |-> a, outcome |-> "rejected", stage |-> stage,
                        error |-> error, authAtCall |-> att[a].authAtCall,
                        progress |-> IF stage = "agent"
                                     THEN onProgress(att[a].progress, 2)
                                     ELSE att[a].progress])

SessionKey(a) == derEncodePublicKey(RandomKey(loads, a))
\* the worker posts {id, result} and worker.onmessage resolves the pending
\* hash; authenticate goes on to create its agents (a failure there rejects
\* the call) and calls prepareDelegationPassword.  The Argon2id hash takes far
\* longer than the constructor's storage calls, so the restore has ended by
\* then.
HashReturn(a) ==
    /\ att[a].pc = "hash"
    /\ worker = "ready"
    /\ restore.pc = "done"
    /\ \/ /\ att' = [att EXCEPT ![a].pc = "prepare",
                                    ![a].progress = onProgress(@, 2),
                                    ![a].seed = Some(Argon2id(att[a].hashParams[1])),
                                    ![a].identity =
                                        Some(KeyFromSeed(Argon2id(att[a].hashParams[1]))),
                                    ![a].request =
                                        Some(Request("prepareDelegationPassword",
                                                     PrepareArgs(att[a].username,
                                                                 att[a].register,
                                                                 SessionKey(a))))]
          /\ Quiet
       \/ Reject(a, "agent", "agent creation failed")
    /\ Commit(Cur)
    /\ UNCHANGED <<page, restore, calls, signOuts, touched>>

\* argon2.hash throws inside the worker.  The handler's catch block names its
\* parameter `error`, which hides the logging function `error` it then calls:
\* the call throws a TypeError inside the async handler, before postMessage.
\* The worker has consumed the job and posts nothing; the entry of the job
\* stays in pendingMessages.
HashThrows(a) ==
    /\ att[a].pc = "hash"
    /\ worker = "ready"
    /\ restore.pc = "done"
    /\ att' = [att EXCEPT ![a].pc = "unanswered"]
    /\ Quiet
    /\ Commit(Cur)
    /\ UNCHANGED <<page, restore, calls, signOuts, touched>>

\* worker.onerror, delivered for the script that threw while loading: every
\* pending hash is rejected and its entry deleted; this.worker is kept, so
\* later jobs are posted to a worker that never installed its message handler
WorkerError ==
    /\ worker = "failing"
    /\ restore.pc = "done"
    /\ worker' = "broken"
    /\ att' = [a \in Attempts |->
                 IF att[a].pc \in {"hash", "unanswered"}
                 THEN [att[a] EXCEPT !.pc = "hashRejected"] ELSE att[a]]
    /\ Quiet
    /\ Commit(Cur)
    /\ UNCHANGED <<env, restore, calls, signOuts, touched>>

\* the rejected hash reaches the catch of signUp/signIn
HashRejected(a) ==
    /\ att[a].pc = "hashRejected"
    /\ Reject(a, "hash", "Worker error")
    /\ Commit(Cur)
    /\ UNCHANGED <<page, restore, calls, signOuts, touched>>

\* A prepare step that signs the instance out when the authority refuses
PrepareReturnSigningOut(a) ==
    /\ att[a].pc = "prepare"
    /\ \E r \in PrepResponses(att[a].request[1].args.register) :
          IF r.t = "err"
          THEN Reject(a, "prepare", r.err) /\ Commit(signOut(Cur, "manual"))
          ELSE /\ att' = [att EXCEPT ![a].pc = "getDelegation",
                                     ![a].progress = onProgress(@, 3),
                                     ![a].expireAt = Some(r.expireAt),
                                     ![a].request =
                                         Some(Request("getDelegation",
                                                      GetDelegationArgs(SessionKey(a),
                                                                        r.expireAt))),
                                     ![a].isNew = r.isNew]
               /\ Quiet
               /\ Commit(Cur)
    /\ UNCHANGED <<page, restore, calls, signOuts, touched>>
\* prepareDelegationPassword answers; on ok getDelegation is called with expireAt
PrepareReturn(a) ==
    /\ att[a].pc = "prepare"
    /\ \E r \in PrepResponses(att[a].request[1].args.register) :
          IF r.t = "err"
          THEN Reject(a, "prepare", r.err)
          ELSE /\ att' = [att EXCEPT ![a].pc = "getDelegation",
                                     ![a].progress = onProgress(@, 3),
                                     ![a].expireAt = Some(r.expireAt),
                                     ![a].request =
                                         Some(Request("getDelegation",
                                                      GetDelegationArgs(SessionKey(a),
                                                                        r.expireAt))),
                                     ![a].isNew = r.isNew]
               /\ Quiet
    /\ Commit(Cur)
    /\ UNCHANGED <<page, restore, calls, signOuts, touched>>

AuthResult(delegationIdentity, expiresAt, isNew) ==
    [delegationIdentity |-> delegationIdentity,
     principal |-> IdentityPrincipal(delegationIdentity),
     expiresAt |-> expiresAt, isNewUser |-> isNew]
\* lines 1605-1619: the chain and the identity built from the answer
BuiltIdentity(a, resp) ==
    DelegationIdentity(RandomKey(loads, a),
                       ChainFromDelegations(resp.delegations, resp.userPublicKey))
\* lines 1615-1622: the fields are assigned, then saveSession is called
commitSession(m, delegationIdentity, expiresAt, setOk) ==
    LET b == [m EXCEPT !.currentIdentity = Some(delegationIdentity),
                       !.currentExpiresAt = Some(expiresAt)]
    IN saveSession(b, delegationIdentity.delegation,
                   IdentityPrincipal(delegationIdentity), expiresAt, setOk)

\* A check that lets an answer without delegations through
NoDelegationsUnchecked(resp) == FALSE
\* authResponse.delegations.length === 0
NoDelegations(resp) == Len(resp.delegations) = 0
\* getDelegation answers; on a non-empty ok the session is set and saved
GetDelegationReturn(a) ==
    /\ att[a].pc = "getDelegation"
    /\ \E resp \in DelegationResponses(UsernameHash(att[a].username),
                                       att[a].request[1].args.sessionKey,
                                       att[a].request[1].args.expireAt) :
          IF resp.t = "err"
          THEN Reject(a, "getDelegation", resp.err) /\ Commit(Cur)
          ELSE IF NoDelegations(resp)
          THEN /\ Reject(a, "getDelegation", "No delegations returned from the canister")
               /\ Commit(Cur)
          ELSE \E setOk \in BOOLEAN :
                 LET id == BuiltIdentity(a, resp)
                     expiresAt == ExpiresAtOf(att[a].expireAt[1])
                 IN /\ Commit(commitSession(Cur, id, expiresAt, setOk))
                    /\ att' = [att EXCEPT
                          ![a].pc = "saveSession", ![a].setOk = setOk,
                          ![a].request = Null,
                          ![a].result = Some(AuthResult(id, expiresAt, att[a].isNew))]
                    /\ Quiet
    /\ UNCHANGED <<page, restore, calls, signOuts, touched>>

AuthEvent(register, result) ==
    IF register
    THEN [authenticated |-> TRUE, event |-> "signUp", reason |-> "manual",
          principal |-> result.principal, expiresAt |-> Some(result.expiresAt),
          isNewUser |-> result.isNewUser]
    ELSE [authenticated |-> TRUE, event |-> "signIn", reason |-> "manual",
          principal |-> result.principal, expiresAt |-> Some(result.expiresAt)]
\* lines 1624-1637 and the caller's onAuth: the monitors are armed with the
\* attempt's own expiresAt, the result returned and the event emitted
finishAuthenticate(m, register, result) ==
    LET b == IF idleConfigured THEN IdleStart(m) ELSE m
        c == setExpirationTimer(b, result.expiresAt)
    IN IF Thrown(c) THEN c ELSE Emit(c, AuthEvent(register, result))

\* saveSession settles: authenticate finishes and the promise resolves, or
\* the storage error rejects it
SaveSessionReturn(a) ==
    /\ att[a].pc = "saveSession"
    /\ IF att[a].setOk /\ Thrown(finishAuthenticate(Cur, att[a].register, att[a].result[1]))
       THEN /\ Reject(a, "finish", "storage.remove failed")
            /\ Commit(Caught(finishAuthenticate(Cur, att[a].register, att[a].result[1])))
       ELSE IF att[a].setOk
       THEN /\ Commit(finishAuthenticate(Cur, att[a].register, att[a].result[1]))
            /\ att' = [att EXCEPT ![a] = Finished]
            /\ reported' = <<>>
            /\ settled' = Some([attempt |-> a, outcome |-> "resolved",
                                result |-> att[a].result[1],
                                authAtCall |-> att[a].authAtCall,
                                progress |-> att[a].progress])
       ELSE /\ Reject(a, "saveSession", "storage.set failed")
            /\ Commit(Cur)
    /\ UNCHANGED <<page, restore, calls, signOuts, touched>>

(* ------------------------- signOut, timers, time ----------------------- *)
\* the application calls signOut()
SignOut ==
    /\ signOuts < MaxSignOuts
    /\ signOuts' = signOuts + 1
    /\ touched' = TRUE
    /\ Commit(signOut(Cur, "manual"))
    /\ Quiet
    /\ UNCHANGED <<page, restore, att, calls>>

RECURSIVE resetTimerTimes(_, _)
resetTimerTimes(m, n) == IF n = 0 THEN m ELSE resetTimerTimes(resetTimer(m), n - 1)
\* a tracked window event: every attached listener runs resetTimer
Activity ==
    /\ listeners > 0
    /\ Commit(resetTimerTimes(Cur, listeners))
    /\ Quiet
    /\ UNCHANGED <<page, restore, att, calls, signOuts, touched>>

\* the idle timeout fires: onIdle -> handleIdle -> signOut('idle')
IdleTimerFires ==
    /\ \E t \in timers :
          /\ t.kind = "idle"
          /\ t.due <= clock
          /\ Commit(signOut([Cur EXCEPT !.timers = @ \ {t}], "idle"))
    /\ Quiet
    /\ UNCHANGED <<page, restore, att, calls, signOuts, touched>>

\* A callback that signs out when expired and otherwise does nothing
expirationCheckOnce(m) ==
    IF m.currentExpiresAt # Null /\ JsGe(Num(clock), m.currentExpiresAt[1])
    THEN signOut(m, "expired")
    ELSE m
\* the callback given to setTimeout in setExpirationTimer
expirationCheck(m) ==
    IF m.currentExpiresAt # Null /\ JsGe(Num(clock), m.currentExpiresAt[1])
    THEN signOut(m, "expired")
    ELSE IF m.currentExpiresAt # Null
    THEN setExpirationTimer(m, m.currentExpiresAt[1])
    ELSE m
ExpirationTimerFires ==
    /\ \E t \in timers :
          /\ t.kind = "expiration"
          /\ t.due <= clock
          /\ Commit(expirationCheck([Cur EXCEPT !.timers = @ \ {t}]))
    /\ Quiet
    /\ UNCHANGED <<page, restore, att, calls, signOuts, touched>>

\* time passes, up to the next pending timer's due time; the restore's
\* storage calls take no measurable time
NextDue == Min({t.due : t \in timers})
Tick ==
    /\ ticks < MaxTicks
    /\ restore.pc = "done"
    /\ \A t \in timers : t.due > clock
    /\ ticks' = ticks + 1
    /\ clock' \in {IF timers = {} \/ NextDue > clock + TickStep
                   THEN clock + TickStep ELSE NextDue}
                  \cup (IF timers = {} THEN {} ELSE {NextDue})
    /\ Commit(Cur)
    /\ Quiet
    /\ UNCHANGED <<loads, idleConfigured, backend, argon2, restore, att, worker, calls,
                   signOuts, touched>>

\* the page is loaded again: a new instance over the same storage
PageLoad ==
    /\ loads < MaxLoads
    /\ loads' = loads + 1
    /\ restore' = StartRestore(storage)
    /\ worker' = "none"
    /\ currentIdentity' = Null
    /\ currentExpiresAt' = Null
    /\ expirationTimer' = Null
    /\ idleTimer' = Null
    /\ listeners' = 0
    /\ timers' = {}
    /\ att' = [a \in Attempts |-> NoAttempt]
    /\ touched' = FALSE
    /\ emitted' = <<>>
    /\ reported' = <<>>
    /\ signedOut' = Null
    /\ settled' = Null
    /\ created' = Null
    /\ escaped' = <<>>
    /\ UNCHANGED <<clock, ticks, idleConfigured, backend, argon2, storage, calls,
                   signOuts>>

\* HttpAgent.create({identity, host})
HttpAgent(identity) == [identity |-> identity, host |-> "config.host"]
\* A createAgent that makes the agent without looking at the identity first
createAgentUnguarded(m, fetchRootKey) ==
    [outcome |-> "resolved", agent |-> Some(HttpAgent(m.currentIdentity)),
     network |-> IF fetchRootKey THEN {"fetchRootKey"} ELSE {}]
\* createAgent() from the call to the value its promise resolves to: null at
\* once when no identity is held; otherwise an agent made for the identity
\* held at the call, and the root key fetched when config.fetchRootKey is set
\* (a failure of that fetch is caught and logged)
createAgent(m, fetchRootKey) ==
    IF m.currentIdentity = Null
    THEN [outcome |-> "resolved", agent |-> Null, network |-> {}]
    ELSE [outcome |-> "resolved", agent |-> Some(HttpAgent(m.currentIdentity[1])),
          network |-> IF fetchRootKey THEN {"fetchRootKey"} ELSE {}]
\* the application calls createAgent()
CreateAgent ==
    /\ restore.pc = "done"
    /\ \E fetchRootKey \in BOOLEAN : created' = Some(createAgent(Cur, fetchRootKey))
    /\ emitted' = <<>>
    /\ signedOut' = Null
    /\ escaped' = <<>>
    /\ Quiet
    /\ UNCHANGED <<page, storage, currentIdentity, currentExpiresAt, expirationTimer,
                   idleTimer, listeners, timers, restore, att, calls, signOuts, touched>>

InFlight == {a \in Attempts : att[a].pc \notin {"none", "done"}}

\* What runs on the page once the constructor's restoreSession has its data,
\* apart from the application's signUp/signIn calls
Callbacks ==
    \/ \E a \in Attempts : HashReturn(a)
    \/ \E a \in Attempts : HashThrows(a)
    \/ WorkerError
    \/ \E a \in Attempts : HashRejected(a)
    \/ \E a \in Attempts : PrepareReturn(a)
    \/ \E a \in Attempts : GetDelegationReturn(a)
    \/ \E a \in Attempts : SaveSessionReturn(a)
    \/ SignOut
    \/ Activity
    \/ IdleTimerFires
    \/ ExpirationTimerFires
    \/ Tick

\* An application that awaits each signUp/signIn before it calls the next,
\* and whose page may be loaded again between calls.
Next ==
    \/ RestoreResume
    \/ RestoreExpiredNotify
    \/ RestoreCatchDone
    \/ calls < MaxCalls /\ InFlight = {} /\ SignUp
    \/ calls < MaxCalls /\ InFlight = {} /\ SignIn
    \/ InFlight = {} /\ PageLoad
    \/ Callbacks

Spec == Init /\ [][Next]_vars

\* An application that calls signUp/signIn while an earlier call is pending,
\* on a page loaded once over an empty storage.
InitOverlap == Init /\ storage = Null /\ idleConfigured
NextOverlap ==
    \/ RestoreResume
    \/ calls < MaxOverlap /\ SignUp
    \/ calls < MaxOverlap /\ SignIn
    \/ Callbacks

Overlap == InitOverlap /\ [][NextOverlap]_vars

(* ------------------------------ accessors ------------------------------ *)
isAuthenticated == currentIdentity # Null
getPrincipal ==
    IF currentIdentity = Null THEN Null
    ELSE Some(IdentityPrincipal(currentIdentity[1]))
getExpiresAt == currentExpiresAt
ExpirationTimers == {t \in timers : t.kind = "expiration"}

\* A page loaded over a session an earlier page saved with an expiry further
\* away than MAX_TIMEOUT, so that its expiry check fires before the expiry.
InitLong ==
    /\ clock = T0
    /\ ticks = 0
    /\ loads = 1
    /\ calls = 0
    /\ signOuts = 0
    /\ idleConfigured \in BOOLEAN
    /\ storage = Some(GoodRecord("alice", T0 + MAX_TIMEOUT + TickStep))
    /\ restore = StartRestore(storage)
    /\ worker = "none"
    /\ backend = SoundBackend
    /\ Constructed
NextLong ==
    \/ RestoreResume
    \/ calls < MaxCalls /\ InFlight = {} /\ SignUp
    \/ calls < MaxCalls /\ InFlight = {} /\ SignIn
    \/ InFlight = {} /\ PageLoad
    \/ Callbacks
Long == InitLong /\ [][NextLong]_vars

\* An application that awaits each signUp/signIn and calls createAgent() at
\* any moment after the page has loaded.
NextAgents ==
    \/ RestoreResume
    \/ RestoreExpiredNotify
    \/ RestoreCatchDone
    \/ calls < MaxCalls /\ InFlight = {} /\ SignUp
    \/ calls < MaxCalls /\ InFlight = {} /\ SignIn
    \/ CreateAgent
    \/ Callbacks
Agents == Init /\ [][NextAgents]_vars

\* An application that calls signUp(u, p) on a page loaded over an empty
\* storage and, once it holds the session of u, calls signIn(u, p).
InitSequel == Init /\ storage = Null
SequelSignUp == calls = 0 /\ SignUp
SequelSignIn ==
    /\ calls = 1
    /\ InFlight = {}
    /\ \E u \in Usernames, p \in Passwords :
          /\ getPrincipal = Some(PrincipalText(UserPublicKey(UsernameHash(u))))
          /\ Call(u, p, FALSE)
NextSequel ==
    \/ RestoreResume
    \/ SequelSignUp
    \/ SequelSignIn
    \/ Callbacks
Sequel == InitSequel /\ [][NextSequel]_vars

\* A page whose storage backend may fail, left to its restore and its timers
InitFaulty ==
    /\ clock = T0
    /\ ticks = 0
    /\ loads = 1
    /\ calls = 0
    /\ signOuts = 0
    /\ idleConfigured \in BOOLEAN
    /\ storage \in InitialStorage
    /\ restore = StartRestore(storage)
    /\ worker = "none"
    /\ backend \in Backends
    /\ Constructed
NextFaulty ==
    \/ RestoreResume
    \/ RestoreExpiredNotify
    \/ RestoreCatchDone
    \/ Activity
    \/ IdleTimerFires
    \/ ExpirationTimerFires
    \/ Tick
Faulty == InitFaulty /\ [][NextFaulty]_vars

\* The Argon2Worker object taken alone: callers ask for hashes, the Worker
\* answers each message it reads with a result, with an error or not at all,
\* the Worker fails, the object is terminated.
instance == <<clock, ticks, loads, idleConfigured, storage, currentIdentity,
              currentExpiresAt, expirationTimer, idleTimer, listeners, timers,
              restore, att, worker, calls, signOuts, touched, emitted, reported,
              signedOut, settled, created, backend, escaped>>
HashRequested ==
    /\ Len(argon2.promises) < MaxOverlap
    /\ \E u \in Usernames, p \in Passwords : argon2' = hash(argon2, HashParams(u, p))
    /\ UNCHANGED instance
WorkerAnswers ==
    /\ \E m \in argon2.posted :
          \E ans \in { [id |-> m.id, result |-> Some(Argon2id(m.params)), error |-> Null],
                        [id |-> m.id, result |-> Null, error |-> Some("hash failed")],
                        [id |-> m.id, result |-> Null, error |-> Some("")] } :
             argon2' = [argon2 EXCEPT !.posted = @ \ {m}, !.answers = @ \cup {ans}]
    /\ UNCHANGED instance
WorkerDropsMessage ==
    /\ \E m \in argon2.posted : argon2' = [argon2 EXCEPT !.posted = @ \ {m}]
    /\ UNCHANGED instance
MessageArrives ==
    /\ \E data \in argon2.answers :
          argon2' = onmessage([argon2 EXCEPT !.answers = @ \ {data}], data)
    /\ UNCHANGED instance
ErrorArrives ==
    /\ argon2.worker
    /\ argon2' = onerror(argon2, "failed")
    /\ UNCHANGED instance
Terminate ==
    /\ argon2.worker
    /\ argon2' = terminate(argon2)
    /\ UNCHANGED instance
InitHashing == Init /\ storage = Null /\ ~idleConfigured
NextHashing ==
    \/ HashRequested
    \/ WorkerAnswers
    \/ WorkerDropsMessage
    \/ MessageArrives
    \/ ErrorArrives
    \/ Terminate
Hashing == InitHashing /\ [][NextHashing]_vars

(* ------------------------------ properties ----------------------------- *)
\* C1, for the failing storage write: a signUp/signIn call made while
\* isAuthenticated() is false and rejected because storage.set failed while
\* the session was being persisted leaves isAuthenticated() false and
\* getPrincipal() and getExpiresAt() null once the promise has rejected.
C1_RejectedCallLeavesUnauthenticated ==
    (/\ settled # Null
     /\ settled[1].outcome = "rejected"
     /\ ~settled[1].authAtCall
     /\ settled[1].stage = "saveSession")
    => (~isAuthenticated /\ getPrincipal = Null /\ getExpiresAt = Null)

\* C2: whenever a signUp/signIn promise resolves with an AuthResult, at that
\* moment isAuthenticated() is true, getPrincipal() and getExpiresAt() equal
\* the result's principal and expiresAt, the record is persisted, and the
\* expiration timer and (when configured) the idle timer are armed.
C2_ResolvedMeansAuthenticated ==
    (settled # Null /\ settled[1].outcome = "resolved")
    => (/\ isAuthenticated
        /\ getPrincipal = Some(settled[1].result.principal)
        /\ getExpiresAt = Some(settled[1].result.expiresAt)
        /\ storage # Null
        /\ ExpirationPending(Cur)
        /\ idleConfigured => IdlePending(Cur))

\* C3, while no call is in flight, no callback is waiting to run and the
\* expiry check of the held session is scheduled (due no later than
\* MIN_TIMEOUT after its expiresAt): isAuthenticated() is true if and only if
\* a session is held whose expiresAt is later than the clock.
C3_AuthenticatedIffUnexpired ==
    (/\ restore.pc = "done"
     /\ InFlight = {}
     /\ \A t \in timers : t.due > clock
     /\ ExpirationTimers # {}
     /\ currentExpiresAt # Null
     /\ \A t \in ExpirationTimers : t.due <= currentExpiresAt[1].v + MIN_TIMEOUT)
    => (isAuthenticated <=>
            /\ currentIdentity # Null
            /\ currentExpiresAt # Null
            /\ ~currentExpiresAt[1].nan
            /\ currentExpiresAt[1].v > clock)

\* C4: when signOut(reason) returns, whatever the reason and the state it was
\* called in, isAuthenticated() is false, getPrincipal() and getExpiresAt()
\* are null, the stored record is gone, no expiration and no idle timer is
\* pending, and the call has emitted exactly the one onAuth event
\* {authenticated: false, event: signOut, reason}.
C4_SignOutClearsEverything ==
    signedOut # Null =>
        /\ ~signedOut[1].isAuthenticated
        /\ signedOut[1].principal = Null
        /\ signedOut[1].expiresAt = Null
        /\ ~signedOut[1].stored
        /\ ~signedOut[1].expirationPending
        /\ ~signedOut[1].idlePending
        /\ signedOut[1].emitted = <<SignOutEvent(signedOut[1].reason)>>
\* the idle timeout signs out a page that held a stored session with its
\* expiry check scheduled
C4_Witness ==
    /\ signedOut # Null
    /\ signedOut[1].reason = "idle"
    /\ signedOut[1].wasAuthenticated
    /\ signedOut[1].wasStored
    /\ signedOut[1].wasArmed

\* C5: a signOut call made when no identity is held (a second call in a row
\* among them) returns without throwing, leaves isAuthenticated() false, the
\* storage empty and both timers disarmed, and still emits one signOut event.
C5_SignOutIdempotent ==
    (signedOut # Null /\ ~signedOut[1].wasAuthenticated) =>
        /\ signedOut[1].returned
        /\ ~signedOut[1].isAuthenticated
        /\ ~signedOut[1].stored
        /\ ~(signedOut[1].expirationPending \/ signedOut[1].idlePending)
        /\ Len(signedOut[1].emitted) = 1
        /\ signedOut[1].emitted[1].event = "signOut"
        /\ ~signedOut[1].emitted[1].authenticated
\* the application's second signOut() in a row, on a page that never signed in
C5_Witness ==
    /\ signOuts = 2
    /\ calls = 0
    /\ signedOut # Null
    /\ signedOut[1].reason = "manual"
    /\ ~signedOut[1].wasAuthenticated

\* C6: at most one signUp/signIn attempt is in flight on an instance.
C6_OneAttemptInFlight == Cardinality(InFlight) <= 1

\* C7: when a signUp/signIn call made while a session was held resolves, the
\* identity in memory, getExpiresAt(), the one stored record and the one
\* pending expiration timer are those of the new session.
C7_NewSessionReplacesHeld ==
    (settled # Null /\ settled[1].outcome = "resolved" /\ settled[1].authAtCall)
    => LET r == settled[1].result IN
        /\ currentIdentity = Some(r.delegationIdentity)
        /\ currentExpiresAt = Some(r.expiresAt)
        /\ storage = Some(SerializeSession(r.delegationIdentity.delegation,
                                           r.principal, r.expiresAt))
        /\ Cardinality(ExpirationTimers) = 1
        /\ \A t \in ExpirationTimers : expirationTimer = Some(t.id)

\* A stored session record whose expiresAt is at or before the clock
ExpiredRecord(data) ==
    /\ data # Null
    /\ IsJSON(data[1])
    /\ JSONParse(data[1]).expiresAt.t = "number"
    /\ JSONParse(data[1]).expiresAt.v <= clock
MalformedRecord(data) ==
    /\ data # Null
    /\ \/ ~IsJSON(data[1])
       \/ JSONParse(data[1]).expiresAt.t # "number"
       \/ ~ChainFieldParses(JSONParse(data[1]).delegationChain)
\* C9: restoring from data that is no well-formed session record leaves
\* isAuthenticated() false, arms no timer and removes the stored value.
C9_MalformedRecordRestore ==
    [][ (restore.pc = "get" /\ MalformedRecord(restore.data) /\ ~touched
            /\ restore'.pc # "get")
        => (currentIdentity' = Null /\ timers' = {} /\ storage' = Null) ]_vars

\* C10: a new instance constructed over the record a successful sign-in of
\* user u persisted, read before its expiresAt, ends its restore with
\* isAuthenticated() true, getPrincipal() the persisted principal,
\* getExpiresAt() the persisted expiresAt, the expiration timer and (when
\* configured) the idle timer armed, and the one onAuth event
\* {event: signIn, reason: restore} emitted.
C10_SaveRestoreRoundTrip ==
    [][ (restore.pc = "get" /\ restore'.pc # "get") =>
        \A u \in Usernames, load \in 0..MaxLoads, slot \in Attempts,
           q \in {T0 - TickStep, T0, T0 + TickStep, T0 + SessionTtlMs},
           r \in {0, 1, NsPerMs - 1} :
          (/\ restore.data = Some(RecordOf(u, load, slot, ExpireAtNs(q, r)))
           /\ q > clock)
          => /\ restore'.pc = "done"
             /\ currentIdentity' # Null
             /\ IdentityPrincipal(currentIdentity'[1])
                    = PrincipalText(UserPublicKey(UsernameHash(u)))
             /\ currentExpiresAt' = Some(Num(q))
             /\ \E t \in timers' : t.kind = "expiration"
             /\ idleConfigured => \E t \in timers' : t.kind = "idle"
             /\ emitted' = <<RestoreEvent(PrincipalText(UserPublicKey(UsernameHash(u))),
                                          Some(Num(q)))>> ]_vars
\* a later page has restored the session bob's sign-in persisted on an
\* earlier one
C10_Witness ==
    /\ loads > 1
    /\ restore.pc = "done"
    /\ ~touched
    /\ isAuthenticated
    /\ getPrincipal = Some(PrincipalText(UserPublicKey(UsernameHash("bob"))))
    /\ Len(emitted) = 1
    /\ emitted[1].reason = "restore"

\* C11: whenever isAuthenticated() is true the held chain is non-empty and
\* its last delegation names the DER-encoded public key of the key the held
\* identity signs with.
C11_HeldChainUsable ==
    isAuthenticated =>
        LET id == currentIdentity[1]
            ds == id.delegation.delegations
        IN /\ Len(ds) > 0
           /\ ds[Len(ds)].delegation.pubkey = derEncodePublicKey(id.inner)

\* C12, on a page whose only sessions are restored ones: every signOut(idle)
\* ends a held session, whose restore started the monitor; once signed out,
\* no further signOut(idle) occurs.
C12_IdleSignOutOnlyOfHeldSession ==
    (signedOut # Null /\ signedOut[1].reason = "idle" /\ calls = 0)
    => signedOut[1].wasAuthenticated

\* C13, on a page whose only sessions are restored ones: once signed out, and
\* until the next sign-in or restore, no idle timer is armed.
C13_NoIdleTimerAfterSignOut ==
    (calls = 0 /\ restore.pc = "done" /\ ~isAuthenticated) => ~IdlePending(Cur)

\* C14, as the condition it needs at every instant: while a session is held
\* and neither the restore nor a call is in progress, the expiry check is
\* scheduled (only that check ever performs signOut(expired)).
C14_HeldSessionHasExpiryCheck ==
    (isAuthenticated /\ InFlight = {} /\ restore.pc = "done")
    => ExpirationPending(Cur)

\* the steps that settle, or bring nearer to settling, the hash attempt a waits for
HashStep(a) == HashReturn(a) \/ HashThrows(a) \/ WorkerError \/ HashRejected(a)
\* C15: a call waiting for its key derivation, once the restore has ended, has
\* a step of the worker or of its own still to come (an answer, a failure
\* that rejects it); it is never left with nothing that will settle it.
C15_HashAlwaysAnswered ==
    restore.pc = "done" =>
        \A a \in Attempts :
            att[a].pc \in {"hash", "unanswered", "hashRejected"} => ENABLED HashStep(a)

\* C16: a step that ends the wait of a pending call other than by going on to
\* its next stage or by resolving it is a failure of the call: the promise
\* rejects with the error, onError receives that error exactly once, and no
\* onAuth event is emitted.
C16_ErrorRejectsAndReportsOnce ==
    [][\A a \in Attempts :
          (att[a].pc \notin {"none", "done"} /\ att'[a] # att[a]
             /\ att'[a].pc \notin {"prepare", "getDelegation", "saveSession", "hashRejected"}
             /\ ~(settled' # Null /\ settled'[1].attempt = a
                                  /\ settled'[1].outcome = "resolved"))
          => /\ settled' # Null
             /\ settled'[1].attempt = a
             /\ settled'[1].outcome = "rejected"
             /\ reported' = <<settled'[1].error>>
             /\ emitted' = <<>>]_vars

\* C17, for the calls whose session has not already run out when they resolve:
\* the step that resolves a signUp/signIn emits exactly one onAuth event, with
\* authenticated true, the method called, reason manual and the principal,
\* expiresAt and isNewUser of the returned AuthResult, and at that moment the
\* call's saveSession has succeeded and the expiry check is scheduled.
C17_SuccessEmitsOneAuthEvent ==
    [][(settled' # Null /\ settled'[1].outcome = "resolved" /\ signedOut' = Null)
       => LET a == settled'[1].attempt
              result == settled'[1].result
          IN /\ emitted' = << [authenticated |-> TRUE,
                               event |-> IF att[a].register THEN "signUp" ELSE "signIn",
                               reason |-> "manual",
                               principal |-> result.principal,
                               expiresAt |-> Some(result.expiresAt),
                               isNewUser |-> result.isNewUser] >>
             /\ att[a].pc = "saveSession" /\ att[a].setOk
             /\ ExpirationPending(Cur)']_vars

C19_SignInAfterSignUpSamePrincipal ==
    [][/\ (att[2].pc = "getDelegation" /\ att'[2].pc = "saveSession" /\ isAuthenticated)
          => /\ getPrincipal' = getPrincipal
             /\ currentIdentity'[1].inner # currentIdentity[1].inner
             /\ currentIdentity'[1].delegation.delegations
                   # currentIdentity[1].delegation.delegations
       /\ (settled' # Null /\ settled'[1].outcome = "resolved"
              /\ settled'[1].attempt = 2 /\ signOuts = 0)
          => getPrincipal' = Some(settled'[1].result.principal)]_vars

\* what attempt a, with record r, must keep on the client: the password and
\* the raw username (as text and as bytes), the seed, the secret key of the
\* long-term identity and the secret key of the session key pair
SecretsOf(r, a) ==
    {RawText(r.password), RawText(r.username),
     TextEncode(r.password), TextEncode(r.username),
     SecretKey(RandomKey(loads, a))}
    \cup (IF r.seed = Null THEN {} ELSE {r.seed[1], SecretKey(r.identity[1])})
\* the values that can be read out of the arguments of a remote call
RequestParts(q) ==
    IF q.method = "prepareDelegationPassword"
    THEN {q.args.userId, q.args.sessionKey, q.args.sessionKey.key, q.args.expireIn}
    ELSE {RawText(q.args.provider), q.args.sessionKey, q.args.sessionKey.key,
          q.args.expireAt}
\* the values that can be read out of a stored record
StoredParts(v) ==
    LET session == JSONParse(v)
        chain == ChainFromJSON(JSONParse(session.delegationChain.text))
    IN {session.principal, chain.publicKey}
       \cup UNION { {chain.delegations[i].delegation.pubkey,
                     chain.delegations[i].delegation.pubkey.key,
                     chain.delegations[i].delegation.expiration,
                     chain.delegations[i].signature} :
                   i \in 1..Len(chain.delegations) }
\* C20: every remote call an attempt makes carries the hash of the username
\* and the DER-encoded public session key and nothing that can be read out of
\* it is one of the attempt's secrets; every value an attempt writes to
\* storage has the fields delegationChain, expiresAt and principal only, and
\* nothing that can be read out of it is one of the attempt's secrets.
C20_SecretsStayOnClient ==
    [][\A a \in Attempts :
          att'[a] # att[a] =>
            /\ att'[a].request # Null =>
                  LET q == att'[a].request[1]
                  IN /\ RequestParts(q) \cap SecretsOf(att'[a], a) = {}
                     /\ q.args.sessionKey = derEncodePublicKey(RandomKey(loads, a))
                     /\ q.args.origin = Origin
                     /\ q.method = "prepareDelegationPassword" =>
                            q.args.userId = UsernameHash(att'[a].username)
            /\ (storage' # storage /\ storage' # Null) =>
                  /\ DOMAIN JSONParse(storage'[1])
                        = {"delegationChain", "expiresAt", "principal"}
                  /\ StoredParts(storage'[1]) \cap SecretsOf(att[a], a) = {}]_vars
\* an attempt has made both remote calls and written its session to storage
C20_Witness ==
    \E a \in Attempts :
        att[a].pc = "saveSession" /\ att[a].setOk /\ storage # Null /\ att[a].seed # Null

C22_GetDelegationFollowsOwnPrepare ==
    [][\A a \in Attempts :
          att'[a] # att[a] =>
            /\ (att'[a].request # Null /\ att'[a].request # att[a].request
                   /\ att'[a].request[1].method = "getDelegation")
               => /\ att[a].pc = "prepare"
                  /\ att[a].request # Null
                  /\ att[a].request[1].method = "prepareDelegationPassword"
                  /\ att'[a].expireAt # Null
                  /\ att'[a].expireAt[1] \in ExpireAtChoices
                  /\ att'[a].request[1].args.expireAt = att'[a].expireAt[1]
                  /\ att'[a].request[1].args.sessionKey
                        = att[a].request[1].args.sessionKey
                  /\ att'[a].request[1].args.origin = att[a].request[1].args.origin
                  /\ \A b \in Attempts \ {a} :
                        att'[b].request # Null
                        => att'[b].request[1].args.sessionKey
                             # att'[a].request[1].args.sessionKey
            /\ (att[a].pc = "prepare" /\ settled' # Null /\ settled'[1].attempt = a
                   /\ settled'[1].outcome = "rejected")
               => att'[a].pc = "done" /\ att'[a].request = Null
            /\ att[a].pc = "done" => att'[a].request = Null]_vars
\* two attempts overlap and each has called getDelegation
C22_Witness ==
    \E a, b \in Attempts :
        /\ a # b
        /\ att[a].request # Null /\ att[a].request[1].method = "getDelegation"
        /\ att[b].request # Null /\ att[b].request[1].method = "getDelegation"
        /\ att[a].expireAt # att[b].expireAt

PrepareErrs(r) ==
    {x.err : x \in {y \in PrepResponses(r.register) : y.t = "err"}}
GetDelegationErrs(r) ==
    {x.err : x \in {y \in DelegationResponses(UsernameHash(r.username),
                                               r.request[1].args.sessionKey,
                                               r.request[1].args.expireAt) : y.t = "err"}}
\* how far an attempt has come
StageRank(pc) ==
    CASE pc = "none" -> 0
      [] pc \in {"hash", "unanswered", "hashRejected"} -> 1
      [] pc = "prepare" -> 2
      [] pc = "getDelegation" -> 3
      [] pc = "saveSession" -> 4
      [] pc = "done" -> 5
\* C24: an attempt that ends while it waits for prepareDelegationPassword or
\* getDelegation and is rejected over an err answer rejects with, and reports,
\* exactly the err string of the authority; and no attempt calls prepare or
\* getDelegation a second time: prepare is called only when the hash
\* resolves, getDelegation only when prepare answers, and an attempt never
\* goes back to an earlier step.
C24_ErrVerbatimNoRetry ==
    [][\A a \in Attempts :
          att'[a] # att[a] =>
            /\ (settled' # Null /\ settled'[1].attempt = a
                   /\ settled'[1].outcome = "rejected" /\ att[a].pc = "prepare")
               => /\ settled'[1].error \in PrepareErrs(att[a])
                  /\ reported' = <<settled'[1].error>>
            /\ (settled' # Null /\ settled'[1].attempt = a
                   /\ settled'[1].outcome = "rejected" /\ att[a].pc = "getDelegation"
                   /\ settled'[1].error # "No delegations returned from the canister")
               => /\ settled'[1].error \in GetDelegationErrs(att[a])
                  /\ reported' = <<settled'[1].error>>
            /\ (att'[a].request # Null /\ att'[a].request # att[a].request)
               => \/ /\ att'[a].request[1].method = "prepareDelegationPassword"
                     /\ att[a].pc = "hash" /\ att[a].request = Null
                  \/ /\ att'[a].request[1].method = "getDelegation"
                     /\ att[a].pc = "prepare"
            /\ att'[a].pc # "none" => StageRank(att'[a].pc) >= StageRank(att[a].pc)
            /\ att'[a].pc \in {"prepare", "getDelegation"}
               => StageRank(att'[a].pc) > StageRank(att[a].pc)]_vars
\* getDelegation has answered err and the attempt has rejected with it
C24_Witness ==
    /\ settled # Null
    /\ settled[1].outcome = "rejected"
    /\ settled[1].stage = "getDelegation"
    /\ settled[1].error = "delegation refused"

\* C25: no attempt ever builds a chain or identity without delegations; the
\* attempt that getDelegation answers ok with zero delegations rejects, and in
\* that step the session in memory, the storage, the timers and the listeners
\* stay as they were.
C25_EmptyDelegationsRejects ==
    [][\A a \in Attempts :
          att'[a] # att[a] =>
            /\ att'[a].result # Null
               => Len(att'[a].result[1].delegationIdentity.delegation.delegations) > 0
            /\ att[a].pc = "getDelegation"
               => \/ att'[a].pc = "saveSession"
                  \/ /\ settled' # Null
                     /\ settled'[1].attempt = a
                     /\ settled'[1].outcome = "rejected"
                     /\ UNCHANGED <<currentIdentity, currentExpiresAt, storage, timers,
                                    expirationTimer, idleTimer, listeners>>]_vars
\* getDelegation has answered ok with zero delegations while a session was
\* held and stored
C25_Witness ==
    /\ settled # Null
    /\ settled[1].outcome = "rejected"
    /\ settled[1].error = "No delegations returned from the canister"
    /\ isAuthenticated
    /\ storage # Null

ExpiresAtInputs ==
    {clock - TickStep, clock, clock + 1, clock + MIN_TIMEOUT - 1, clock + MIN_TIMEOUT,
     clock + MIN_TIMEOUT + 1, clock + MAX_TIMEOUT - 1, clock + MAX_TIMEOUT,
     clock + MAX_TIMEOUT + 1}
Clamp(x, lo, hi) == IF x < lo THEN lo ELSE IF x > hi THEN hi ELSE x
\* C27: in every state the instance can be in, setExpirationTimer(expiresAt)
\* with expiresAt later than now leaves exactly one expiry check pending, the
\* one in this.expirationTimer, with delay clamp(expiresAt - now, 5 s, 12 h),
\* and performs no signOut; with expiresAt at or before now it leaves no
\* expiry check pending and has performed signOut(expired).
C27_ExpiryCheckDelayClamped ==
    \A e \in ExpiresAtInputs :
        LET after == setExpirationTimer(Cur, Num(e))
            checks == {t \in after.timers : t.kind = "expiration"}
        IN IF e > clock
           THEN /\ after.lastSignOut = Null
                /\ after.expirationTimer # Null
                /\ Cardinality(checks) = 1
                /\ \A t \in checks :
                      /\ t.id = after.expirationTimer[1]
                      /\ t.due - clock = Clamp(e - clock, MIN_TIMEOUT, MAX_TIMEOUT)
                      /\ t.due - clock >= 5000
                      /\ t.due - clock <= 43200000
           ELSE /\ checks = {}
                /\ after.expirationTimer = Null
                /\ after.lastSignOut # Null
                /\ after.lastSignOut[1].reason = "expired"
\* a call has resolved with an expiry nearer than 5 s and its check is
\* scheduled 5 s from now
C27_Witness ==
    /\ settled # Null /\ settled[1].outcome = "resolved"
    /\ currentExpiresAt # Null /\ ~currentExpiresAt[1].nan
    /\ currentExpiresAt[1].v - clock < MIN_TIMEOUT
    /\ \E t \in timers : t.kind = "expiration" /\ t.due = clock + MIN_TIMEOUT

\* C28: whenever a pending expiry check runs while a session with a valid
\* expiresAt is held: if now is at or after the held expiresAt it performs
\* signOut(expired); otherwise it performs no signOut, leaves the session as
\* it is and leaves exactly one expiry check pending, the one in
\* this.expirationTimer, scheduled for the held expiresAt.
C28_ExpiryCheckRechecks ==
    \A t \in timers :
        (t.kind = "expiration" /\ isAuthenticated /\ currentExpiresAt # Null
           /\ ~currentExpiresAt[1].nan)
        => LET after == expirationCheck([Cur EXCEPT !.timers = @ \ {t}])
               checks == {x \in after.timers : x.kind = "expiration"}
               held == currentExpiresAt[1].v
           IN IF clock >= held
              THEN /\ after.lastSignOut # Null
                   /\ after.lastSignOut[1].reason = "expired"
                   /\ after.currentIdentity = Null
              ELSE /\ after.lastSignOut = Null
                   /\ after.currentIdentity = currentIdentity
                   /\ after.currentExpiresAt = currentExpiresAt
                   /\ Cardinality(checks) = 1
                   /\ \A x \in checks :
                         /\ after.expirationTimer = Some(x.id)
                         /\ x.due = clock + Clamp(held - clock, MIN_TIMEOUT, MAX_TIMEOUT)
\* the check of the restored session has fired MAX_TIMEOUT after the load,
\* before the expiry, and the session is held with a new check pending
C28_Witness ==
    /\ clock = T0 + MAX_TIMEOUT
    /\ calls = 0 /\ signOuts = 0 /\ loads = 1
    /\ isAuthenticated
    /\ currentExpiresAt = Some(Num(T0 + MAX_TIMEOUT + TickStep))
    /\ \E t \in timers : t.kind = "expiration" /\ t.due = clock + MIN_TIMEOUT

\* the attempts whose hash request the worker has been handed and has not
\* answered
Unanswered == {a \in Attempts : att[a].pc \in {"hash", "unanswered"}}
FirstSteps(n) ==
    [i \in 1..n |-> [message |-> CASE i = 1 -> "Hashing password..."
                                   [] i = 2 -> "Preparing login session..."
                                   [] i = 3 -> "Requesting delegation...",
                     step |-> i, total |-> 3]]
\* C30: what an attempt has passed to onProgress is always steps 1..n in
\* order, each once and each with total 3. Step 1 has been passed when the
\* hash request is out and nothing more until the hash has resolved; steps 1
\* and 2 while prepare is awaited; step 3 only once prepare has answered ok.
\* An attempt that rejects has made no call for a later step: one call when
\* the hash fails, two when the agent or prepare fails, three afterwards; an
\* attempt that resolves has made exactly the three.
C30_ProgressInOrder ==
    /\ \A a \in Attempts :
          /\ att[a].pc \in {"hash", "unanswered", "hashRejected"}
             => att[a].progress = FirstSteps(1) /\ att[a].seed = Null
          /\ att[a].pc = "prepare"
             => att[a].progress = FirstSteps(2) /\ att[a].seed # Null
          /\ att[a].pc \in {"getDelegation", "saveSession"}
             => att[a].progress = FirstSteps(3) /\ att[a].expireAt # Null
          /\ att[a].pc \in {"none", "done"} => att[a].progress = <<>>
    /\ settled # Null
       => settled[1].progress =
            FirstSteps(IF settled[1].outcome = "resolved" THEN 3
                       ELSE CASE settled[1].stage = "hash" -> 1
                              [] settled[1].stage \in {"agent", "prepare"} -> 2
                              [] OTHER -> 3)
\* prepare has answered err and the attempt has rejected after two calls of
\* onProgress
C30_Witness ==
    /\ settled # Null
    /\ settled[1].outcome = "rejected"
    /\ settled[1].stage = "prepare"
    /\ settled[1].progress = FirstSteps(2)

\* C31: no step of the restore or of a timer callback lets an exception or a
\* rejected promise escape or calls onError, whatever the storage backend
\* does; and a sign-out made by the idle timer or the expiry check has
\* returned with the session cleared, no monitor pending and its signOut
\* event emitted.
C31_StorageFailuresRecovered ==
    /\ escaped = <<>>
    /\ reported = <<>>
    /\ (signedOut # Null /\ signedOut[1].reason \in {"idle", "expired"})
       => /\ signedOut[1].returned
          /\ ~signedOut[1].isAuthenticated
          /\ signedOut[1].expiresAt = Null
          /\ ~signedOut[1].expirationPending
          /\ ~signedOut[1].idlePending
          /\ signedOut[1].emitted = <<SignOutEvent(signedOut[1].reason)>>

\* C32: after a step in which the application's signOut() has returned, the
\* next step of the page, which can only belong to a restore or an attempt
\* begun before that signOut or be a new call, leaves isAuthenticated()
\* false and the persisted record absent.
C32_SignOutStaysSignedOut ==
    [][(signedOut # Null /\ signedOut[1].reason = "manual" /\ signedOut[1].returned)
          => (currentIdentity' = Null /\ storage' = Null)]_vars

\* C33: whenever an expiration timer is pending, a session is held:
\* isAuthenticated() is true and getExpiresAt() is not null.
C33_ExpiryTimerOnlyWithSession ==
    ExpirationPending(Cur) => (isAuthenticated /\ getExpiresAt # Null)

\* C34: a step that performs signOut(expired) while a session is held ends
\* only an expired one: the clock is at or after the expiresAt held before
\* the step; a session that is still valid is never ended as expired.
C34_ExpiredOnlyWhenExpired ==
    [][(signedOut' # Null /\ signedOut'[1].reason = "expired" /\ currentExpiresAt # Null)
          => JsGe(Num(clock'), currentExpiresAt[1])]_vars

\* C35: when a step has emitted onAuth events and has left no signUp/signIn
\* and no restore in progress, the authenticated flag of the last event it
\* emitted equals isAuthenticated().
C35_LastEventTellsState ==
    (emitted # <<>> /\ InFlight = {} /\ restore.pc = "done")
    => emitted[Len(emitted)].authenticated = isAuthenticated

\* the persisted record names this principal and this expiresAt
RecordAgrees(data, principal, expiresAt) ==
    /\ IsJSON(data)
    /\ Some(JSONParse(data).principal) = principal
    /\ Some(ToNumber(JSONParse(data).expiresAt)) = expiresAt
\* C36: whenever no attempt and no restore is in progress, a session record
\* is persisted if and only if isAuthenticated() is true, and then its
\* principal and expiresAt are getPrincipal() and getExpiresAt().
C36_MemoryAndStorageAgree ==
    (InFlight = {} /\ restore.pc = "done")
    => /\ storage # Null <=> isAuthenticated
       /\ isAuthenticated => RecordAgrees(storage[1], getPrincipal, getExpiresAt)

\* C37: every step of an attempt up to and including its rejection over the
\* hash, the agent, the prepare answer or the getDelegation answer (err or
\* no delegations) leaves the in-memory identity and expiresAt, the
\* persisted record, the expiration timer and the idle timer as they were.
C37_EarlyRejectChangesNothing ==
    [][\A a \in Attempts :
          (/\ att'[a] # att[a]
           /\ \/ att[a].pc \in {"none", "hash", "unanswered", "hashRejected", "prepare"}
              \/ /\ att[a].pc = "getDelegation"
                 /\ settled' # Null
                 /\ settled'[1].attempt = a
                 /\ settled'[1].outcome = "rejected")
          => /\ currentIdentity' = currentIdentity
             /\ currentExpiresAt' = currentExpiresAt
             /\ storage' = storage
             /\ expirationTimer' = expirationTimer
             /\ idleTimer' = idleTimer
             /\ timers' = timers]_vars
\* a signIn made while a session is held has been refused by prepare and the
\* session is still held, persisted and monitored
C37_Witness ==
    /\ settled # Null
    /\ settled[1].outcome = "rejected"
    /\ settled[1].stage = "prepare"
    /\ settled[1].authAtCall
    /\ isAuthenticated
    /\ storage # Null
    /\ ExpirationPending(Cur)

\* C38: in every state, that is wherever control can be yielded,
\* getExpiresAt() is null if and only if isAuthenticated() is false.
C38_IdentityAndExpiryTogether ==
    (getExpiresAt = Null) <=> ~isAuthenticated
\* a session signed in on this page has been ended by its expiry check
C38_Witness ==
    /\ calls > 0
    /\ signedOut # Null
    /\ signedOut[1].reason = "expired"
    /\ signedOut[1].wasAuthenticated
    /\ ~isAuthenticated
    /\ getExpiresAt = Null

\* C39: at every moment at most one expiration timer and at most one idle
\* timer are pending, and a pending one is the one whose handle the instance
\* holds.
C39_OneTimerOfEachKind ==
    /\ Cardinality({t \in timers : t.kind = "expiration"}) <= 1
    /\ Cardinality({t \in timers : t.kind = "idle"}) <= 1
    /\ \A t \in timers :
          /\ t.kind = "expiration" => expirationTimer = Some(t.id)
          /\ t.kind = "idle" => idleTimer = Some(t.id)
\* a call made while a session was held has resolved and armed both monitors
\* anew
C39_Witness ==
    /\ settled # Null
    /\ settled[1].outcome = "resolved"
    /\ settled[1].authAtCall
    /\ Cardinality({t \in timers : t.kind = "expiration"}) = 1
    /\ Cardinality({t \in timers : t.kind = "idle"}) = 1

\* C40: the promises hash() has returned carry ids that differ from one
\* another, and every pending entry belongs to the promise that was given
\* its id; no promise is settled more than once; a promise that resolved
\* holds the hash of its own parameters (or undefined, for its own answer
\* with an empty error text); and a step settles a promise only by
\* delivering an answer that carries the promise's id while its entry is
\* pending, or by the Worker's error, so that an answer whose id has no
\* entry settles nothing.
C40_ResponsesMatchedById ==
    /\ [](\A p, q \in DOMAIN argon2.promises :
             /\ p # q => argon2.promises[p].id # argon2.promises[q].id
             /\ argon2.promises[p].settles <= 1
             /\ argon2.promises[p].state = "resolved"
                => argon2.promises[p].value
                      \in {Some(Argon2id(argon2.promises[p].params)), Some(Undefined)}
             /\ \A id \in DOMAIN argon2.pendingMessages :
                   argon2.pendingMessages[id] = p
                   => /\ argon2.promises[p].id = id
                      /\ argon2.promises[p].state = "pending")
    /\ [][\A p \in DOMAIN argon2.promises :
             argon2'.promises[p] # argon2.promises[p]
             => \/ \E data \in argon2.answers \ argon2'.answers :
                     /\ data.id = argon2.promises[p].id
                     /\ data.id \in DOMAIN argon2.pendingMessages
                     /\ argon2.pendingMessages[data.id] = p
                     /\ \A q \in DOMAIN argon2.promises \ {p} :
                           argon2'.promises[q] = argon2.promises[q]
                \/ /\ argon2'.answers = argon2.answers
                   /\ argon2'.pendingMessages = <<>>
                   /\ argon2'.promises[p].state = "rejected"
                   /\ \E id \in DOMAIN argon2.pendingMessages :
                         argon2.pendingMessages[id] = p]_vars
\* two requests were outstanding together and each has resolved with the
\* hash of its own parameters
C40_Witness ==
    /\ Len(argon2.promises) = 2
    /\ argon2.promises[1].params # argon2.promises[2].params
    /\ \A p \in {1, 2} :
          /\ argon2.promises[p].state = "resolved"
          /\ argon2.promises[p].value = Some(Argon2id(argon2.promises[p].params))
====
